---- MODULE Spec2Model ----
(***************************************************************************)
(* The local-disk Data Availability Service of das/local_disk_das.go:      *)
(* construction (NewDAS, NewStorageServiceFromStorageConfig,               *)
(* NewDASWithSeqInboxCaller), certificate issuance (DAS.Store) and          *)
(* retrieval (DAS.GetByHash, DAS.KeysetFromHash, DAS.CurrentKeysetBytes),  *)
(* DAS.HealthCheck, over a storage service whose implementations live      *)
(* outside this file and are modelled from their contract.                 *)
(***************************************************************************)
EXTENDS Integers, Sequences, FiniteSets, TLC

VARIABLES
    config,   \* DataAvailabilityConfig the node was built from
    das,      \* the *DAS returned by NewDAS (constructed = FALSE: NewDAS returned an error)
    svc,      \* the composed StorageService behind das.storageService
    ctxDone,  \* the parent context passed to NewDAS has been cancelled
    closer,   \* the goroutine of NewStorageServiceFromStorageConfig: none / waiting / exited
    now,      \* wall-clock time, in the unit of a certificate's timeout
    call,     \* one record per Store call slot: inputs, position, locals, result
    held,     \* a certificate, or its dataHash alone, some client keeps after Store returned it
    resp      \* what the call of a reading handler just made returned

vars == <<config, das, svc, ctxDone, closer, now, call, held, resp>>

----------------------------------------------------------------------------
(* Bounds *)

MaxMsg == 2
MaxTime == 2

Msgs == { <<i>> : i \in 1..MaxMsg }      \* payloads: byte strings
Timeouts == 1..MaxTime                   \* uint64 deadlines
Times == 0..MaxTime
Calls == {"c1", "c2"}                    \* Store call slots

----------------------------------------------------------------------------
(* Cryptographic primitives and wire formats *)

RECURSIVE HashFold(_, _)
HashFold(h, bytes) ==
    IF bytes = <<>> THEN h
    ELSE HashFold((h * 31 + Head(bytes)) % 251, Tail(bytes))

\* crypto.Keccak256: a digest of the bytes (collision-free on the payloads used here)
Keccak256(bytes) == HashFold(7, bytes)

\* blsSignatures.PublicKeyFromPrivateKey
PublicKeyFromPrivateKey(sk) == 2 * sk + 1

\* blsSignatures.SignMessage: a signature binds the signer's public key to the payload
SignMessage(sk, payload) == [pub |-> PublicKeyFromPrivateKey(sk), over |-> payload]

\* blsSignatures.VerifySignature
VerifySignature(sig, payload, pub) == sig.pub = pub /\ sig.over = payload

\* DataAvailabilityCertificate.SerializeSignableFields
SerializeSignableFields(c) == <<c.DataHash, c.Timeout, c.SignersMask>>

\* DataAvailabilityKeyset.Serialize
KeysetSerialize(keyset) == <<keyset.AssumedHonest, Len(keyset.PubKeys)>> \o keyset.PubKeys

\* DataAvailabilityKeyset.Hash
KeysetHash(keyset) == Keccak256(KeysetSerialize(keyset))

NilCert == [nil |-> TRUE]
NilErr == "nil"

----------------------------------------------------------------------------
(* Store-request signatures and the batch-poster registry *)

Poster == "poster"
Stranger == "stranger"
BatchPosters == {Poster}

\* the digest a batch poster signs for a store request
StoreRequestDigest(message, timeout) == Keccak256(message \o <<timeout>>)

EmptySig == [signer |-> "", digest |-> 0]
SigBy(addr, message, timeout) == [signer |-> addr, digest |-> StoreRequestDigest(message, timeout)]

\* the signatures a caller may send along with (message, timeout)
SigChoices(message, timeout, nominal) ==
    IF nominal THEN {SigBy(Poster, message, timeout)}
    ELSE {EmptySig, SigBy(Poster, message, timeout), SigBy(Stranger, message, timeout)}

\* DasRecoverSigner: the address that signed (message, timeout), or an error
DasRecoverSigner(message, timeout, sig) ==
    IF sig = EmptySig THEN [addr |-> "", err |-> "ErrRecoverSigner"]
    ELSE IF sig.digest = StoreRequestDigest(message, timeout)
         THEN [addr |-> sig.signer, err |-> NilErr]
         ELSE [addr |-> "unrelated", err |-> NilErr]

\* BatchPosterVerifier.IsBatchPoster: a read-only contract call that may fail
IsBatchPoster(addr, rpcFail) ==
    IF rpcFail THEN [ok |-> FALSE, err |-> "ErrIsBatchPosterCall"]
    ELSE [ok |-> addr \in BatchPosters, err |-> NilErr]

----------------------------------------------------------------------------
(* The StorageService contract *)

NoEntries == [h \in {} |-> [data |-> <<>>, ttl |-> FALSE, expiry |-> 0]]

\* the tiers of a chain that wrap an inner tier: all but the innermost
CacheTiers(chain) == { chain[i] : i \in 1..(Len(chain) - 1) }

\* a freshly built storage service: the tiers it chains, outermost first,
\* whether it was built to discard data after its timeout, what the innermost
\* store holds (entries) and which hashes each wrapping tier holds a copy of
NewStore(chain, discard) ==
    [chain |-> chain, discard |-> discard, entries |-> NoEntries,
     cached |-> [tier \in CacheTiers(chain) |-> {}],
     closed |-> FALSE, closeCalls |-> 0]

Holds(s, hash) == hash \in DOMAIN s.entries

Expired(s, hash, t) == s.entries[hash].ttl /\ s.entries[hash].expiry <= t

\* StorageService.Put
SvcPut(s, message, timeout, fail) ==
    IF s.closed THEN [svc |-> s, err |-> "ErrClosed"]
    ELSE IF fail THEN [svc |-> s, err |-> "ErrStoragePut"]
    ELSE LET k == Keccak256(message)
             e == [data |-> message, ttl |-> s.discard,
                   expiry |-> IF s.discard THEN timeout ELSE 0]
         IN [svc |-> [s EXCEPT !.entries =
                        [h \in DOMAIN s.entries \cup {k} |-> IF h = k THEN e ELSE s.entries[h]],
                               !.cached = [tier \in DOMAIN s.cached |-> s.cached[tier] \cup {k}]],
             err |-> NilErr]

\* StorageService.Sync
SvcSync(s, fail) == IF fail THEN "ErrStorageSync" ELSE NilErr

\* GetByHash of tier i of the chain and of the tiers inside it: the bytes or
\* the error, the tiers whose GetByHash was called, and what the wrapping
\* tiers hold afterwards. A wrapping tier answers from its own copy; on a miss
\* it asks the tier inside it, keeps a copy of what that one returns, and
\* passes an error on as it is. fail: the innermost store, if asked, fails.
RECURSIVE TierGetByHash(_, _, _, _, _)
TierGetByHash(s, i, hash, t, fail) ==
    LET tier == s.chain[i]
    IN IF i = Len(s.chain)
       THEN IF fail
            THEN [data |-> <<>>, err |-> "ErrStorageGet", reached |-> <<tier>>, cached |-> s.cached]
            ELSE IF Holds(s, hash) /\ ~Expired(s, hash, t)
            THEN [data |-> s.entries[hash].data, err |-> NilErr,
                  reached |-> <<tier>>, cached |-> s.cached]
            ELSE [data |-> <<>>, err |-> "ErrNotFound", reached |-> <<tier>>, cached |-> s.cached]
       ELSE IF hash \in s.cached[tier]
            THEN [data |-> s.entries[hash].data, err |-> NilErr,
                  reached |-> <<tier>>, cached |-> s.cached]
            ELSE LET inner == TierGetByHash(s, i + 1, hash, t, fail)
                 IN [data |-> inner.data, err |-> inner.err,
                     reached |-> <<tier>> \o inner.reached,
                     cached |-> IF inner.err = NilErr
                                THEN [inner.cached EXCEPT ![tier] = @ \cup {hash}]
                                ELSE inner.cached]

\* StorageService.GetByHash of the composed service: the answer, the tiers
\* asked, and the service afterwards
SvcGetByHash(s, hash, t, fail) ==
    IF s.closed THEN [data |-> <<>>, err |-> "ErrClosed", reached |-> <<>>, svc |-> s]
    ELSE LET r == TierGetByHash(s, 1, hash, t, fail)
         IN [data |-> r.data, err |-> r.err, reached |-> r.reached,
             svc |-> [s EXCEPT !.cached = r.cached]]

\* a wrapping tier drops its copy of a blob (eviction is the cache's own policy)
SvcEvict(s, tier, hash) == [s EXCEPT !.cached[tier] = @ \ {hash}]

\* StorageService.HealthCheck
SvcHealthCheck(s, fail) ==
    IF s.closed THEN "ErrClosed"
    ELSE IF fail THEN "ErrStorageHealth"
    ELSE NilErr

\* StorageService.Close
SvcClose(s) == [s EXCEPT !.closed = TRUE, !.closeCalls = @ + 1]

----------------------------------------------------------------------------
(* Construction *)

StorageTypes == {"", "files", "db", "s3", "redis", "bigCache"}
L1NodeURLs == {"none", "http://l1"}
SeqInboxAddresses == {"", "0xinbox"}

\* every configuration the node may be started with
Configs ==
    [StorageType : StorageTypes \cup {"tape"},
     DiscardAfterTimeout : BOOLEAN,
     L1NodeURL : L1NodeURLs,
     SequencerInboxAddress : SeqInboxAddresses]

\* the BLS private key read from priv-key or key-dir
LocalPrivKey == 5

NoService == [chain |-> <<>>, discard |-> FALSE, entries |-> NoEntries,
              cached |-> [tier \in {} |-> {}], closed |-> FALSE, closeCalls |-> 0]

\* mutant of NewStorageServiceFromStorageConfig: an unrecognized storage type
\* falls back to the local disk service
NewStorageServiceFromStorageConfig_DefaultsToFiles(cfg) ==
    LET discard == cfg.DiscardAfterTimeout
        ok(chain, d, hook) == [svc |-> NewStore(chain, d), closeOnDone |-> hook, err |-> NilErr]
    IN CASE cfg.StorageType = "db"       -> ok(<<"db">>, discard, TRUE)
         [] cfg.StorageType = "s3"       -> ok(<<"s3">>, discard, FALSE)
         [] cfg.StorageType = "redis"    -> ok(<<"redis", "s3">>, discard, FALSE)
         [] cfg.StorageType = "bigCache" -> ok(<<"bigCache", "redis", "s3">>, discard, FALSE)
         [] OTHER -> ok(<<"files">>, FALSE, FALSE)

\* mutant of NewStorageServiceFromStorageConfig: "redis" and "bigCache" return
\* the object store alone, not the tiers built around it
NewStorageServiceFromStorageConfig_Unwrapped(cfg) ==
    LET discard == cfg.DiscardAfterTimeout
        ok(chain, d, hook) == [svc |-> NewStore(chain, d), closeOnDone |-> hook, err |-> NilErr]
    IN CASE cfg.StorageType \in {"", "files"} -> ok(<<"files">>, FALSE, FALSE)
         [] cfg.StorageType = "db"       -> ok(<<"db">>, discard, TRUE)
         [] cfg.StorageType \in {"s3", "redis", "bigCache"} -> ok(<<"s3">>, discard, FALSE)
         [] OTHER -> [svc |-> NoService, closeOnDone |-> FALSE,
                      err |-> "Storage service type not recognized"]

\* NewStorageServiceFromStorageConfig: the service, whether a goroutine was
\* started that closes it when ctx is done, and the error
NewStorageServiceFromStorageConfig(cfg) ==
    LET discard == cfg.DiscardAfterTimeout
        ok(chain, d, hook) == [svc |-> NewStore(chain, d), closeOnDone |-> hook, err |-> NilErr]
    IN CASE cfg.StorageType \in {"", "files"} -> ok(<<"files">>, FALSE, FALSE)
         [] cfg.StorageType = "db"       -> ok(<<"db">>, discard, TRUE)
         [] cfg.StorageType = "s3"       -> ok(<<"s3">>, discard, FALSE)
         [] cfg.StorageType = "redis"    -> ok(<<"redis", "s3">>, discard, FALSE)
         [] cfg.StorageType = "bigCache" -> ok(<<"bigCache", "redis", "s3">>, discard, FALSE)
         [] OTHER -> [svc |-> NoService, closeOnDone |-> FALSE,
                      err |-> "Storage service type not recognized"]

NoDAS == [constructed |-> FALSE, privKey |-> 0, keysetHash |-> 0, keysetBytes |-> <<>>,
          bpVerifier |-> FALSE]

\* NewDASWithSeqInboxCaller: the keyset of this node and the optional verifier
NewDASWithSeqInboxCaller(seqInboxCaller) ==
    LET privKey == LocalPrivKey
        publicKey == PublicKeyFromPrivateKey(privKey)
        keyset == [AssumedHonest |-> 1, PubKeys |-> <<publicKey>>]
    IN [constructed |-> TRUE,
        privKey |-> privKey,
        keysetHash |-> KeysetHash(keyset),
        keysetBytes |-> KeysetSerialize(keyset),
        bpVerifier |-> seqInboxCaller]

\* mutant of NewDAS: a missing sequencer inbox address is not checked
NewDAS_IgnoresMissingInbox(cfg) ==
    LET s == NewStorageServiceFromStorageConfig(cfg)
    IN IF s.err # NilErr THEN NoDAS
       ELSE IF cfg.L1NodeURL = "none" THEN NewDASWithSeqInboxCaller(FALSE)
       ELSE NewDASWithSeqInboxCaller(TRUE)

\* NewDAS: no verifier when the L1 node URL is "none" or no sequencer inbox
\* address is given
NewDAS(cfg) ==
    LET s == NewStorageServiceFromStorageConfig(cfg)
    IN IF s.err # NilErr THEN NoDAS
       ELSE IF cfg.L1NodeURL = "none" THEN NewDASWithSeqInboxCaller(FALSE)
       ELSE IF cfg.SequencerInboxAddress = "" THEN NewDASWithSeqInboxCaller(FALSE)
       ELSE NewDASWithSeqInboxCaller(TRUE)

IdleCall == [pc |-> "idle", msg |-> <<>>, timeout |-> 0, sig |-> EmptySig,
             c |-> NilCert, err |-> NilErr, steps |-> <<>>, afterClose |-> FALSE]

\* the answer of the call before, kept with the answer of a repeated call
NoPrev == [err |-> "none", data |-> <<>>, reached |-> <<>>]

NoResp == [op |-> "none", hash |-> 0, data |-> <<>>, err |-> NilErr,
           backendGets |-> 0, backendErr |-> NilErr, reached |-> <<>>,
           calls |-> <<>>,
           closed |-> FALSE, prev |-> NoPrev]

InitWith(cfgs) ==
    /\ config \in cfgs
    /\ das = NewDAS(config)
    /\ svc = NewStorageServiceFromStorageConfig(config).svc
    /\ closer = IF NewStorageServiceFromStorageConfig(config).closeOnDone
                THEN "waiting" ELSE "none"
    /\ ctxDone = FALSE
    /\ now = 0
    /\ call = [p \in Calls |-> IdleCall]
    /\ held = NilCert
    /\ resp = NoResp

Init == InitWith(Configs)

----------------------------------------------------------------------------
(* DAS.Store *)

Step(op, res) == [op |-> op, res |-> res]

\* mutant of Authorize: the answer "not a batch poster" is not checked
Authorize_AcceptsNonPoster(d, message, timeout, sig, rpcFail) ==
    IF ~d.bpVerifier THEN [err |-> NilErr, steps |-> <<>>]
    ELSE LET actualSigner == DasRecoverSigner(message, timeout, sig)
             isBatchPoster == IsBatchPoster(actualSigner.addr, rpcFail)
         IN IF actualSigner.err # NilErr
            THEN [err |-> actualSigner.err,
                  steps |-> <<Step("recover", actualSigner.err)>>]
            ELSE IF isBatchPoster.err # NilErr
            THEN [err |-> isBatchPoster.err,
                  steps |-> <<Step("recover", "ok"), Step("isBatchPoster", isBatchPoster.err)>>]
            ELSE [err |-> NilErr,
                  steps |-> <<Step("recover", "ok"),
                              Step("isBatchPoster", IF isBatchPoster.ok THEN "true" ELSE "false")>>]

\* mutant of Authorize: an error of the IsBatchPoster call is ignored (fail open)
Authorize_FailOpen(d, message, timeout, sig, rpcFail) ==
    IF ~d.bpVerifier THEN [err |-> NilErr, steps |-> <<>>]
    ELSE LET actualSigner == DasRecoverSigner(message, timeout, sig)
             isBatchPoster == IsBatchPoster(actualSigner.addr, rpcFail)
         IN IF actualSigner.err # NilErr
            THEN [err |-> actualSigner.err,
                  steps |-> <<Step("recover", actualSigner.err)>>]
            ELSE IF isBatchPoster.err # NilErr
            THEN [err |-> NilErr,
                  steps |-> <<Step("recover", "ok"), Step("isBatchPoster", isBatchPoster.err)>>]
            ELSE IF ~isBatchPoster.ok
            THEN [err |-> "store request not properly signed",
                  steps |-> <<Step("recover", "ok"), Step("isBatchPoster", "false")>>]
            ELSE [err |-> NilErr,
                  steps |-> <<Step("recover", "ok"), Step("isBatchPoster", "true")>>]

\* Store, the authorization block: skipped without a verifier; otherwise the
\* signer is recovered and looked up in the batch-poster registry
Authorize(d, message, timeout, sig, rpcFail) ==
    IF ~d.bpVerifier THEN [err |-> NilErr, steps |-> <<>>]
    ELSE LET actualSigner == DasRecoverSigner(message, timeout, sig)
             isBatchPoster == IsBatchPoster(actualSigner.addr, rpcFail)
         IN IF actualSigner.err # NilErr
            THEN [err |-> actualSigner.err,
                  steps |-> <<Step("recover", actualSigner.err)>>]
            ELSE IF isBatchPoster.err # NilErr
            THEN [err |-> isBatchPoster.err,
                  steps |-> <<Step("recover", "ok"), Step("isBatchPoster", isBatchPoster.err)>>]
            ELSE IF ~isBatchPoster.ok
            THEN [err |-> "store request not properly signed",
                  steps |-> <<Step("recover", "ok"), Step("isBatchPoster", "false")>>]
            ELSE [err |-> NilErr,
                  steps |-> <<Step("recover", "ok"), Step("isBatchPoster", "true")>>]

\* mutant of UnsignedCert: the hash is taken over the request, not the message alone
UnsignedCert_HashesRequest(message, timeout) ==
    [DataHash |-> StoreRequestDigest(message, timeout), Timeout |-> timeout, SignersMask |-> 1,
     Sig |-> [pub |-> 0, over |-> <<>>], KeysetHash |-> 0]

\* Store, the certificate before it is signed: keysetHash is still zero
UnsignedCert(message, timeout) ==
    [DataHash |-> Keccak256(message), Timeout |-> timeout, SignersMask |-> 1,
     Sig |-> [pub |-> 0, over |-> <<>>], KeysetHash |-> 0]

\* a Store call that returns (c, err)
Return(rec, c, err, steps) ==
    [rec EXCEPT !.pc = "done", !.c = c, !.err = err, !.steps = steps]

\* mutant of StoreBegin: the fields are serialized for signing before the
\* timeout is set in the certificate
StoreBegin_SignsBeforeTimeout(p, message, timeout, sig, rpcFail, signFail) ==
    /\ das.constructed
    /\ call[p].pc = "idle"
    /\ LET rec == [IdleCall EXCEPT !.msg = message, !.timeout = timeout, !.sig = sig,
                                   !.afterClose = svc.closed]
           auth == Authorize(das, message, timeout, sig, rpcFail)
           c == UnsignedCert(message, timeout)
           fields == SerializeSignableFields([c EXCEPT !.Timeout = 0])
       IN call' = [call EXCEPT ![p] =
            IF auth.err # NilErr THEN Return(rec, NilCert, auth.err, auth.steps)
            ELSE IF signFail
            THEN Return(rec, NilCert, "ErrSignMessage",
                        auth.steps \o <<Step("sign", "ErrSignMessage")>>)
            ELSE [rec EXCEPT !.pc = "signed",
                             !.c = [c EXCEPT !.Sig = SignMessage(das.privKey, fields)],
                             !.steps = auth.steps \o <<Step("sign", "ok")>>]]
    /\ resp' = NoResp
    /\ UNCHANGED <<config, das, svc, ctxDone, closer, now, held>>

\* Store up to the signature: authorize, hash, build, sign
StoreBegin(p, message, timeout, sig, rpcFail, signFail) ==
    /\ das.constructed
    /\ call[p].pc = "idle"
    /\ LET rec == [IdleCall EXCEPT !.msg = message, !.timeout = timeout, !.sig = sig,
                                   !.afterClose = svc.closed]
           auth == Authorize(das, message, timeout, sig, rpcFail)
           c == UnsignedCert(message, timeout)
           fields == SerializeSignableFields(c)
       IN call' = [call EXCEPT ![p] =
            IF auth.err # NilErr THEN Return(rec, NilCert, auth.err, auth.steps)
            ELSE IF signFail
            THEN Return(rec, NilCert, "ErrSignMessage",
                        auth.steps \o <<Step("sign", "ErrSignMessage")>>)
            ELSE [rec EXCEPT !.pc = "signed",
                             !.c = [c EXCEPT !.Sig = SignMessage(das.privKey, fields)],
                             !.steps = auth.steps \o <<Step("sign", "ok")>>]]
    /\ resp' = NoResp
    /\ UNCHANGED <<config, das, svc, ctxDone, closer, now, held>>

\* mutant of StorePut: the message is read from a buffer shared by all calls,
\* so a call puts the message of another call that is in flight
StorePut_SharedMessage(p, fail) ==
    /\ call[p].pc = "signed"
    /\ LET rec == call[p]
           others == { q \in Calls \ {p} : call[q].pc \in {"signed", "put"} }
           message == IF others = {} THEN rec.msg ELSE call[CHOOSE q \in others : TRUE].msg
           r == SvcPut(svc, message, rec.timeout, fail)
       IN /\ svc' = r.svc
          /\ call' = [call EXCEPT ![p] =
               IF r.err # NilErr
               THEN Return(rec, NilCert, r.err, rec.steps \o <<Step("put", r.err)>>)
               ELSE [rec EXCEPT !.pc = "put", !.steps = @ \o <<Step("put", "ok")>>]]
    /\ resp' = NoResp
    /\ UNCHANGED <<config, das, ctxDone, closer, now, held>>

\* mutant of StorePut: the error of Put is not checked
StorePut_IgnoresErr(p, fail) ==
    /\ call[p].pc = "signed"
    /\ LET rec == call[p]
           r == SvcPut(svc, rec.msg, rec.timeout, fail)
       IN /\ svc' = r.svc
          /\ call' = [call EXCEPT ![p] =
               [rec EXCEPT !.pc = "put",
                           !.steps = @ \o <<Step("put", IF r.err # NilErr THEN r.err ELSE "ok")>>]]
    /\ resp' = NoResp
    /\ UNCHANGED <<config, das, ctxDone, closer, now, held>>

\* Store, d.storageService.Put and its error check
StorePut(p, fail) ==
    /\ call[p].pc = "signed"
    /\ LET rec == call[p]
           r == SvcPut(svc, rec.msg, rec.timeout, fail)
       IN /\ svc' = r.svc
          /\ call' = [call EXCEPT ![p] =
               IF r.err # NilErr
               THEN Return(rec, NilCert, r.err, rec.steps \o <<Step("put", r.err)>>)
               ELSE [rec EXCEPT !.pc = "put", !.steps = @ \o <<Step("put", "ok")>>]]
    /\ resp' = NoResp
    /\ UNCHANGED <<config, das, ctxDone, closer, now, held>>

\* mutant of StoreSync: the assignment of the keyset hash is reversed
\* (d.keysetHash = c.KeysetHash)
StoreSync_AssignsKeysetHashBackwards(p, fail) ==
    /\ call[p].pc = "put"
    /\ LET rec == call[p]
           err == SvcSync(svc, fail)
       IN /\ call' = [call EXCEPT ![p] =
                 IF err # NilErr
                 THEN Return(rec, NilCert, err, rec.steps \o <<Step("sync", err)>>)
                 ELSE Return(rec, rec.c, NilErr,
                             rec.steps \o <<Step("sync", "ok"), Step("return", "ok")>>)]
          /\ das' = IF err # NilErr THEN das ELSE [das EXCEPT !.keysetHash = rec.c.KeysetHash]
    /\ resp' = NoResp
    /\ UNCHANGED <<config, svc, ctxDone, closer, now, held>>

\* mutant of StoreSync: the error of Sync is not checked
StoreSync_IgnoresErr(p, fail) ==
    /\ call[p].pc = "put"
    /\ LET rec == call[p]
           err == SvcSync(svc, fail)
       IN call' = [call EXCEPT ![p] =
            Return(rec, [rec.c EXCEPT !.KeysetHash = das.keysetHash], NilErr,
                   rec.steps \o <<Step("sync", IF err # NilErr THEN err ELSE "ok"),
                                  Step("return", "ok")>>)]
    /\ resp' = NoResp
    /\ UNCHANGED <<config, das, svc, ctxDone, closer, now, held>>

\* mutant of StoreSync: the certificate is returned without calling Sync
StoreSync_SkipsSync(p, fail) ==
    /\ call[p].pc = "put"
    /\ LET rec == call[p]
       IN call' = [call EXCEPT ![p] =
            Return(rec, [rec.c EXCEPT !.KeysetHash = das.keysetHash], NilErr,
                   rec.steps \o <<Step("return", "ok")>>)]
    /\ resp' = NoResp
    /\ UNCHANGED <<config, das, svc, ctxDone, closer, now, held>>

\* Store, d.storageService.Sync, its error check, and the return of the
\* certificate with the keyset hash attached
StoreSync(p, fail) ==
    /\ call[p].pc = "put"
    /\ LET rec == call[p]
           err == SvcSync(svc, fail)
       IN call' = [call EXCEPT ![p] =
            IF err # NilErr
            THEN Return(rec, NilCert, err, rec.steps \o <<Step("sync", err)>>)
            ELSE Return(rec, [rec.c EXCEPT !.KeysetHash = das.keysetHash], NilErr,
                        rec.steps \o <<Step("sync", "ok"), Step("return", "ok")>>)]
    /\ resp' = NoResp
    /\ UNCHANGED <<config, das, svc, ctxDone, closer, now, held>>

\* the caller of a Store has taken what it returned: the slot is free for the next call
Release(p) ==
    /\ call[p].pc = "done"
    /\ call' = [call EXCEPT ![p] = IdleCall]
    /\ resp' = NoResp
    /\ UNCHANGED <<config, das, svc, ctxDone, closer, now, held>>

\* the caller of a Store that returned a certificate keeps what it needs to
\* retrieve the payload: the certificate's dataHash
Keep(p) ==
    /\ call[p].pc = "done"
    /\ call[p].c # NilCert
    /\ held' = [DataHash |-> call[p].c.DataHash]
    /\ resp' = NoResp
    /\ UNCHANGED <<config, das, svc, ctxDone, closer, now, call>>

\* the caller of a Store that returned a certificate keeps the certificate
KeepCertificate(p) ==
    /\ call[p].pc = "done"
    /\ call[p].c # NilCert
    /\ held' = call[p].c
    /\ resp' = NoResp
    /\ UNCHANGED <<config, das, svc, ctxDone, closer, now, call>>

----------------------------------------------------------------------------
(* DAS.GetByHash, DAS.KeysetFromHash *)

\* mutant of GetByHash: a DAS with a verifier answers only after the check
\* Store makes of its caller
GetByHash_ChecksVerifier(d, s, hash, t, fail) ==
    IF d.bpVerifier
    THEN [data |-> <<>>, err |-> "store request not properly signed",
          backendGets |-> 0,
          backendErr |-> NilErr, reached |-> <<>>, calls |-> <<"isBatchPoster">>,
          svc |-> s]
    ELSE LET r == SvcGetByHash(s, hash, t, fail)
         IN [data |-> r.data, err |-> r.err, backendGets |-> 1, backendErr |-> r.err,
             reached |-> r.reached, calls |-> <<"GetByHash">>, svc |-> r.svc]

\* DAS.GetByHash: what the storage service answers. With the answer: how
\* often the storage service was called, the error it reported, the tiers it
\* asked, and the storage service afterwards
GetByHash(d, s, hash, t, fail) ==
    LET r == SvcGetByHash(s, hash, t, fail)
    IN [data |-> r.data, err |-> r.err, backendGets |-> 1, backendErr |-> r.err,
        reached |-> r.reached, calls |-> <<"GetByHash">>, svc |-> r.svc]

\* mutant of KeysetFromHash: the local keyset is not answered from memory
KeysetFromHash_AlwaysDelegates(d, s, ksHash, t, fail) ==
    LET r == GetByHash(d, s, ksHash, t, fail)
    IN IF r.err = NilErr THEN r
       ELSE [r EXCEPT !.data = <<>>, !.err = "ErrDasKeysetNotFound"]

\* mutant of KeysetFromHash: the error of GetByHash is returned as it is
KeysetFromHash_PassesErr(d, s, ksHash, t, fail) ==
    IF ksHash = d.keysetHash
    THEN [data |-> d.keysetBytes, err |-> NilErr, backendGets |-> 0, backendErr |-> NilErr,
          reached |-> <<>>, calls |-> <<>>, svc |-> s]
    ELSE GetByHash(d, s, ksHash, t, fail)

\* DAS.KeysetFromHash: the local keyset, or whatever blob the storage holds
KeysetFromHash(d, s, ksHash, t, fail) ==
    IF ksHash = d.keysetHash
    THEN [data |-> d.keysetBytes, err |-> NilErr, backendGets |-> 0, backendErr |-> NilErr,
          reached |-> <<>>, calls |-> <<>>, svc |-> s]
    ELSE LET r == GetByHash(d, s, ksHash, t, fail)
         IN IF r.err = NilErr THEN r
            ELSE [r EXCEPT !.data = <<>>, !.err = "ErrDasKeysetNotFound"]

\* DAS.CurrentKeysetBytes
CurrentKeysetBytes(d, s) ==
    [data |-> d.keysetBytes, err |-> NilErr, backendGets |-> 0, backendErr |-> NilErr,
     reached |-> <<>>, calls |-> <<>>, svc |-> s]

\* DAS.HealthCheck: what the storage service's HealthCheck answers
HealthCheck(d, s, fail) ==
    LET err == SvcHealthCheck(s, fail)
    IN [data |-> <<>>, err |-> err, backendGets |-> 0, backendErr |-> err,
        reached |-> <<>>, calls |-> <<"HealthCheck">>, svc |-> s]

\* what a caller is answered: the result of a handler, with the request and
\* the collaborators the handler called
Response(op, hash, r, prev) ==
    [op |-> op, hash |-> hash, data |-> r.data, err |-> r.err,
     backendGets |-> r.backendGets, backendErr |-> r.backendErr, reached |-> r.reached,
     calls |-> r.calls, closed |-> svc.closed, prev |-> prev]

\* hashes a caller may ask for: of a payload (stored or not), of the local keyset
AskedHashes == {Keccak256(m) : m \in Msgs} \cup {das.keysetHash}

\* One read is followed at a time: resp is what the read just made returned,
\* and the next step of any other handler clears it. A read changes nothing
\* else, so a read made right after another sees the state the first one saw.
CallGetByHash(hash, fail) ==
    /\ das.constructed
    /\ resp = NoResp
    /\ LET r == GetByHash(das, svc, hash, now, fail)
       IN /\ resp' = Response("GetByHash", hash, r, NoPrev)
          /\ svc' = r.svc
    /\ UNCHANGED <<config, das, ctxDone, closer, now, call, held>>

CallKeysetFromHash(hash, fail) ==
    /\ das.constructed
    /\ resp = NoResp
    /\ LET r == KeysetFromHash(das, svc, hash, now, fail)
       IN /\ resp' = Response("KeysetFromHash", hash, r, NoPrev)
          /\ svc' = r.svc
    /\ UNCHANGED <<config, das, ctxDone, closer, now, call, held>>

CallCurrentKeysetBytes ==
    /\ das.constructed
    /\ resp = NoResp
    /\ LET r == CurrentKeysetBytes(das, svc)
       IN /\ resp' = Response("CurrentKeysetBytes", 0, r, NoPrev)
          /\ svc' = r.svc
    /\ UNCHANGED <<config, das, ctxDone, closer, now, call, held>>

CallHealthCheck(fail) ==
    /\ das.constructed
    /\ resp = NoResp
    /\ LET r == HealthCheck(das, svc, fail)
       IN /\ resp' = Response("HealthCheck", 0, r, NoPrev)
          /\ svc' = r.svc
    /\ UNCHANGED <<config, das, ctxDone, closer, now, call, held>>

\* the caller of GetByHash makes the identical call once more
CallGetByHashAgain(fail) ==
    /\ das.constructed
    /\ resp.op = "GetByHash"
    /\ resp.prev = NoPrev
    /\ LET r == GetByHash(das, svc, resp.hash, now, fail)
       IN /\ resp' = Response("GetByHash", resp.hash, r,
                              [err |-> resp.err, data |-> resp.data, reached |-> resp.reached])
          /\ svc' = r.svc
    /\ UNCHANGED <<config, das, ctxDone, closer, now, call, held>>

\* a wrapping tier of the storage service evicts a blob
Evict(tier, hash) ==
    /\ das.constructed
    /\ tier \in DOMAIN svc.cached
    /\ hash \in svc.cached[tier]
    /\ svc' = SvcEvict(svc, tier, hash)
    /\ resp' = NoResp
    /\ UNCHANGED <<config, das, ctxDone, closer, now, call, held>>

----------------------------------------------------------------------------
(* Shutdown and time *)

\* the parent context of NewDAS is cancelled
CancelParent ==
    /\ das.constructed
    /\ ~ctxDone
    /\ ctxDone' = TRUE
    /\ resp' = NoResp
    /\ UNCHANGED <<config, das, svc, closer, now, call, held>>

\* the goroutine started for the db service: <-ctx.Done(), then Close
ShutdownClose ==
    /\ closer = "waiting"
    /\ ctxDone
    /\ svc' = SvcClose(svc)
    /\ closer' = "exited"
    /\ resp' = NoResp
    /\ UNCHANGED <<config, das, ctxDone, now, call, held>>

\* time passes; only a storage service that discards after timeout reads the clock
Tick ==
    /\ das.constructed
    /\ svc.discard
    /\ now < MaxTime
    /\ now' = now + 1
    /\ resp' = NoResp
    /\ UNCHANGED <<config, das, svc, ctxDone, closer, call, held>>

----------------------------------------------------------------------------
(* Specifications *)

\* whether a call made by Store may return an error of its own
Faults(nominal) == IF nominal THEN {FALSE} ELSE BOOLEAN

\* a Store request arrives in slot p; a nominal one is signed by the batch
\* poster and meets no fault of the signing primitive, and its Put and Sync
\* fail only if the storage service is closed
Request(p, nominal) ==
    \E m \in Msgs, t \in Timeouts, rpcFail \in BOOLEAN :
      \E sig \in SigChoices(m, t, nominal), signFail \in Faults(nominal) :
        StoreBegin(p, m, t, sig, rpcFail, signFail)

Put(p, nominal) == \E fail \in Faults(nominal) : StorePut(p, fail)

Sync(p, nominal) == \E fail \in Faults(nominal) : StoreSync(p, fail)

Read == \E h \in AskedHashes, fail \in BOOLEAN : CallGetByHash(h, fail)

ReadKeyset == \E h \in AskedHashes, fail \in BOOLEAN : CallKeysetFromHash(h, fail)

\* Issuance and shutdown, for every configuration and any request signature
Next ==
    \/ Request("c1", FALSE)
    \/ Put("c1", FALSE)
    \/ Sync("c1", FALSE)
    \/ Release("c1")
    \/ CancelParent
    \/ ShutdownClose

Spec == Init /\ [][Next]_vars

\* the configurations of the retrieval specification: a node with a verifier,
\* over a service that is never closed and never discards (files) and over one
\* that is closed at shutdown and may discard after timeout (db)
RetrieveConfigs ==
    { cfg \in Configs :
        /\ cfg.StorageType \in {"files", "db"}
        /\ cfg.L1NodeURL # "none"
        /\ cfg.SequencerInboxAddress # "" }

\* Issuance of nominal requests, retrieval, shutdown and time
NextRetrieve ==
    \/ Request("c1", TRUE)
    \/ Put("c1", TRUE)
    \/ Sync("c1", TRUE)
    \/ Keep("c1")
    \/ Release("c1")
    \/ Read
    \/ ReadKeyset
    \/ CancelParent
    \/ ShutdownClose
    \/ Tick

SpecRetrieve == InitWith(RetrieveConfigs) /\ [][NextRetrieve]_vars

ReadAgain == \E fail \in BOOLEAN : CallGetByHashAgain(fail)

Evicts == \E tier \in CacheTiers(svc.chain), h \in AskedHashes : Evict(tier, h)

\* the configurations of the cache specification: no verifier, a chain of
\* wrapping tiers over the object store, nothing discarded
CacheConfigs ==
    { cfg \in Configs :
        /\ cfg.StorageType \in {"redis", "bigCache"}
        /\ ~cfg.DiscardAfterTimeout
        /\ cfg.L1NodeURL = "none"
        /\ cfg.SequencerInboxAddress = "" }

\* Issuance of nominal requests, GetByHash and its repetition, eviction
NextCache ==
    \/ Request("c1", TRUE)
    \/ Put("c1", TRUE)
    \/ Sync("c1", TRUE)
    \/ Release("c1")
    \/ Read
    \/ ReadAgain
    \/ Evicts

SpecCache == InitWith(CacheConfigs) /\ [][NextCache]_vars

Health == \E fail \in BOOLEAN : CallHealthCheck(fail)

\* the configurations of the service specification: without and with a
\* verifier, over a service that is never closed (files), one that is (db)
\* and a cache over the object store (redis)
ServiceConfigs ==
    { cfg \in Configs :
        /\ cfg.StorageType \in {"files", "db", "redis"}
        /\ ~cfg.DiscardAfterTimeout
        /\ (cfg.L1NodeURL = "none") = (cfg.SequencerInboxAddress = "") }

\* Every handler of the DAS: Store of requests signed by the batch poster
\* (its Put and Sync may fail), GetByHash, KeysetFromHash, CurrentKeysetBytes,
\* HealthCheck, with eviction by the cache and shutdown
NextService ==
    \/ Request("c1", TRUE)
    \/ Put("c1", FALSE)
    \/ Sync("c1", FALSE)
    \/ Release("c1")
    \/ Read
    \/ ReadKeyset
    \/ CallCurrentKeysetBytes
    \/ Health
    \/ Evicts
    \/ CancelParent
    \/ ShutdownClose

SpecService == InitWith(ServiceConfigs) /\ [][NextService]_vars

\* the configurations of the concurrency specification: no verifier, a service
\* that keeps everything (files, db) or records each put's timeout (db)
ConcurrentConfigs ==
    { cfg \in Configs :
        /\ cfg.StorageType \in {"files", "db"}
        /\ cfg.L1NodeURL = "none"
        /\ cfg.SequencerInboxAddress = "" }

\* Two Store calls at a time, their steps interleaved in every order; Put and
\* Sync may fail
NextConcurrent ==
    \E p \in Calls :
        \/ Request(p, TRUE)
        \/ Put(p, FALSE)
        \/ Sync(p, FALSE)
        \/ Release(p)

SpecConcurrent == InitWith(ConcurrentConfigs) /\ [][NextConcurrent]_vars

\* the configurations of the promise specification: no verifier, a service
\* that keeps everything (files, db) or discards after timeout (db)
PromiseConfigs ==
    { cfg \in Configs :
        /\ cfg.StorageType \in {"files", "db"}
        /\ cfg.L1NodeURL = "none"
        /\ cfg.SequencerInboxAddress = "" }

\* Issuance of nominal requests whose certificates a client keeps, GetByHash,
\* shutdown and time
NextPromise ==
    \/ Request("c1", TRUE)
    \/ Put("c1", TRUE)
    \/ Sync("c1", TRUE)
    \/ KeepCertificate("c1")
    \/ Release("c1")
    \/ Read
    \/ CancelParent
    \/ ShutdownClose
    \/ Tick

SpecPromise == InitWith(PromiseConfigs) /\ [][NextPromise]_vars

----------------------------------------------------------------------------
(* Vocabulary of the properties *)

\* the error taxonomy: which kind an error value reported to a caller belongs to
ErrKind(err) ==
    CASE err \in {"ErrRecoverSigner", "ErrIsBatchPosterCall",
                  "store request not properly signed"} -> "Unauthorized"
      [] err = "ErrSignMessage" -> "SigningError"
      [] err \in {"ErrStoragePut", "ErrStorageSync", "ErrStorageGet", "ErrClosed"} -> "StorageError"
      [] err \in {"ErrNotFound", "ErrDasKeysetNotFound"} -> "NotFoundError"
      [] OTHER -> "none"

StepOps(rec) == [i \in 1..Len(rec.steps) |-> rec.steps[i].op]

HasStep(rec, op, res) == \E i \in 1..Len(rec.steps) : rec.steps[i] = Step(op, res)

Invoked(rec, op) == \E i \in 1..Len(rec.steps) : rec.steps[i].op = op

\* the certificate a caller of slot p has in hand
Observable(p) == IF call[p].pc = "done" THEN call[p].c ELSE NilCert

IsPrefix(a, b) == Len(a) <= Len(b) /\ a = SubSeq(b, 1, Len(a))

\* the payload with a given content hash
MsgOf(hash) == CHOOSE m \in Msgs : Keccak256(m) = hash

\* the public keys a serialized keyset names
KeysetPubKeys(bytes) == SubSeq(bytes, 3, Len(bytes))

----------------------------------------------------------------------------
(* C1: when the storage service's Put fails, or Put succeeds and Sync fails,
   Store returns a nil certificate and exactly the error the service reported. *)
C1_BackendFailureSurfaced ==
    \A p \in Calls : \A i \in 1..Len(call[p].steps) :
        (/\ call[p].pc = "done"
         /\ call[p].steps[i].op \in {"put", "sync"}
         /\ call[p].steps[i].res # "ok")
        => /\ call[p].c = NilCert
           /\ call[p].err = call[p].steps[i].res
           /\ call[p].err # NilErr

C1_Witness ==
    \E p \in Calls :
        /\ call[p].pc = "done"
        /\ HasStep(call[p], "put", "ok")
        /\ HasStep(call[p], "sync", "ErrStorageSync")

(* C3: with a verifier configured, a request whose recovered signer is not a
   batch poster is rejected as Unauthorized with no certificate, and the step
   that rejects it invokes neither Put nor Sync and leaves the storage
   service as it was. *)
C3_NotBatchPosterNoWrite ==
    [][ \A p \in Calls :
          (call'[p] # call[p] /\ HasStep(call'[p], "isBatchPoster", "false"))
          => /\ das.bpVerifier
             /\ call'[p].pc = "done"
             /\ call'[p].c = NilCert
             /\ ErrKind(call'[p].err) = "Unauthorized"
             /\ ~Invoked(call'[p], "put")
             /\ ~Invoked(call'[p], "sync")
             /\ svc' = svc ]_vars

C3_Witness ==
    \E p \in Calls :
        /\ das.bpVerifier
        /\ call[p].pc = "done"
        /\ call[p].sig = SigBy(Stranger, call[p].msg, call[p].timeout)
        /\ HasStep(call[p], "isBatchPoster", "false")

(* C4: with a verifier configured, Store fails closed in all three cases
   (signer recovery fails, IsBatchPoster answers false, IsBatchPoster errs):
   the error is of the Unauthorized kind, no certificate is returned, and the
   call went no further than the authorization. *)
C4_FailClosed ==
    \A p \in Calls :
        (/\ das.bpVerifier
         /\ call[p].pc # "idle"
         /\ \/ HasStep(call[p], "recover", "ErrRecoverSigner")
            \/ HasStep(call[p], "isBatchPoster", "false")
            \/ HasStep(call[p], "isBatchPoster", "ErrIsBatchPosterCall"))
        => /\ call[p].pc = "done"
           /\ call[p].c = NilCert
           /\ ErrKind(call[p].err) = "Unauthorized"
           /\ ~Invoked(call[p], "sign")
           /\ ~Invoked(call[p], "put")
           /\ ~Invoked(call[p], "sync")
           /\ ~Invoked(call[p], "return")

C4_Witness ==
    \E p \in Calls :
        /\ das.bpVerifier
        /\ call[p].pc = "done"
        /\ call[p].sig = SigBy(Poster, call[p].msg, call[p].timeout)
        /\ HasStep(call[p], "isBatchPoster", "ErrIsBatchPosterCall")

\* the certificate Store issues for (message, timeout): no signature of the
\* requester enters it
IssuedCert(d, message, timeout) ==
    [DataHash |-> Keccak256(message), Timeout |-> timeout, SignersMask |-> 1,
     Sig |-> SignMessage(d.privKey, <<Keccak256(message), timeout, 1>>),
     KeysetHash |-> d.keysetHash]

(* C5: a DAS built with L1 node URL "none" or without a sequencer inbox
   address has no verifier; then no Store call recovers a signer or asks the
   registry, and a call whose signing, Put and Sync succeed returns the
   certificate of (message, timeout), whatever signature came with it. *)
C5_NoVerifierAnySignature ==
    (das.constructed /\ (config.L1NodeURL = "none" \/ config.SequencerInboxAddress = ""))
    => /\ ~das.bpVerifier
       /\ \A p \in Calls :
            /\ ~Invoked(call[p], "recover")
            /\ ~Invoked(call[p], "isBatchPoster")
            /\ (call[p].pc = "done" /\ \A i \in 1..Len(call[p].steps) : call[p].steps[i].res = "ok")
               => call[p].c = IssuedCert(das, call[p].msg, call[p].timeout)

C5_Witness ==
    \E p \in Calls :
        /\ config.L1NodeURL # "none"
        /\ config.SequencerInboxAddress = ""
        /\ call[p].pc = "done"
        /\ call[p].sig = EmptySig
        /\ call[p].c # NilCert

(* C6: a certificate returned by Store(m, t, sig) has dataHash = hash of m,
   timeout = t, signersMask = 1 and this node's keysetHash, and its signature
   is over exactly (dataHash, timeout, signersMask) of that certificate and
   verifies under the public key of the keyset its keysetHash names. *)
C6_CertificateFields ==
    \A p \in Calls :
        Observable(p) # NilCert =>
          LET c == Observable(p)
              keyset == KeysetFromHash(das, svc, c.KeysetHash, now, FALSE)
          IN /\ c.DataHash = Keccak256(call[p].msg)
             /\ c.Timeout = call[p].timeout
             /\ c.SignersMask = 1
             /\ c.KeysetHash = das.keysetHash
             /\ c.Sig.over = <<c.DataHash, c.Timeout, c.SignersMask>>
             /\ keyset.err = NilErr
             /\ Len(KeysetPubKeys(keyset.data)) = 1
             /\ VerifySignature(c.Sig, SerializeSignableFields(c), KeysetPubKeys(keyset.data)[1])

C6_Witness ==
    \E p \in Calls :
        /\ Observable(p) # NilCert
        /\ call[p].timeout = MaxTime
        /\ call[p].msg = <<MaxMsg>>

\* the steps of a Store call that returns a certificate
FullRun(d) ==
    (IF d.bpVerifier THEN <<"recover", "isBatchPoster">> ELSE <<>>)
        \o <<"sign", "put", "sync", "return">>

(* C7: the steps of a Store call occur in the order authorize, sign, put,
   sync, return, each only after the one before it succeeded; a certificate
   is in a caller's hands only after Put and Sync of that call succeeded, so a
   call that stops anywhere before (a crash included) leaves none. *)
C7_IssuanceOrder ==
    \A p \in Calls :
        LET rec == call[p]
            n == Len(rec.steps)
        IN /\ IsPrefix(StepOps(rec), FullRun(das))
           /\ \A i \in 1..(n - 1) : rec.steps[i].res \in {"ok", "true"}
           /\ Invoked(rec, "put") => HasStep(rec, "sign", "ok")
           /\ Invoked(rec, "sync") => HasStep(rec, "put", "ok")
           /\ Invoked(rec, "return") => HasStep(rec, "put", "ok") /\ HasStep(rec, "sync", "ok")
           /\ Observable(p) # NilCert <=> Invoked(rec, "return")
           /\ ~HasStep(rec, "sync", "ok") => Observable(p) = NilCert

C7_Witness ==
    \E p \in Calls :
        /\ call[p].pc = "put"
        /\ call[p].c # NilCert
        /\ HasStep(call[p], "sign", "ok")
        /\ HasStep(call[p], "put", "ok")
        /\ Observable(p) = NilCert

(* C9: after the parent context is cancelled the storage service is closed
   exactly once, whatever the storage type: Close is never called twice, and
   once the context is done Close has been called or the call is still to
   come. *)
C9_ShutdownClosesEveryBackend ==
    /\ svc.closeCalls <= 1
    /\ (das.constructed /\ ctxDone) => (svc.closeCalls = 1 \/ ENABLED ShutdownClose)

\* the last call was GetByHash for the hash of the certificate a client holds
ReadOfHeld ==
    /\ held # NilCert
    /\ resp.op = "GetByHash"
    /\ resp.hash = held.DataHash

(* C2 as stated: once Store has returned a certificate for m, GetByHash of its
   dataHash returns exactly m (here even granting that the storage service
   itself reports no failure of the read). *)
C2_RoundTripAlways ==
    (ReadOfHeld /\ resp.err # "ErrStorageGet")
    => (resp.err = NilErr /\ resp.data = MsgOf(held.DataHash))

(* C2 as amended: once Store has returned a certificate for m, the storage
   service holds m under the certificate's dataHash, also after later stores
   of other payloads; GetByHash of that hash never returns other bytes, and
   it returns exactly m as long as the service is not closed, reports no
   failure of the read and, when it discards after timeout, the timeout of
   the latest put of m has not passed. *)
C2_RoundTripWhileRetained ==
    held # NilCert =>
      LET h == held.DataHash
      IN /\ Holds(svc, h)
         /\ svc.entries[h].data = MsgOf(h)
         /\ (ReadOfHeld /\ resp.err = NilErr) => resp.data = MsgOf(h)
         /\ (ReadOfHeld /\ ~svc.closed /\ resp.err # "ErrStorageGet" /\ ~Expired(svc, h, now))
            => (resp.err = NilErr /\ resp.data = MsgOf(h))

C2_Witness ==
    /\ ReadOfHeld
    /\ resp.err = NilErr
    /\ resp.data = MsgOf(held.DataHash)
    /\ \E h \in DOMAIN svc.entries : h # held.DataHash
    /\ call["c1"].pc = "done"
    /\ call["c1"].c # NilCert
    /\ call["c1"].c.DataHash # held.DataHash

(* C8: KeysetFromHash of the local keyset hash returns the keyset bytes
   computed at construction, with no error and without calling the storage
   service, whatever the service holds and whether it is failing or closed. *)
C8_LocalKeysetNoRoundTrip ==
    (resp.op = "KeysetFromHash" /\ resp.hash = das.keysetHash)
    => /\ resp.err = NilErr
       /\ resp.backendGets = 0
       /\ resp.data = KeysetSerialize([AssumedHonest |-> 1,
                                       PubKeys |-> <<PublicKeyFromPrivateKey(LocalPrivKey)>>])
       /\ resp.data = das.keysetBytes
       /\ das = NewDAS(config)

C8_Witness ==
    /\ resp.op = "KeysetFromHash"
    /\ resp.hash = das.keysetHash
    /\ resp.data = das.keysetBytes
    /\ svc.closed
    /\ svc.entries # NoEntries

(* C10 as stated: once shutdown has closed the storage service, every
   GetByHash call, and every Store call begun after the close, fails with the
   closed-service error, and Store returns no certificate. *)
C10_ClosedErrorAlways ==
    /\ (resp.op = "GetByHash" /\ resp.closed) => resp.err = "ErrClosed"
    /\ \A p \in Calls :
         (call[p].afterClose /\ call[p].pc = "done")
         => (call[p].c = NilCert /\ call[p].err = "ErrClosed")

(* C10 as amended: once shutdown has closed the storage service, every
   GetByHash call fails with the closed-service error, and no Store call
   begun after the close returns a certificate: it fails in authorization or
   signing with the error of that step, and otherwise at Put with the
   closed-service error, before any Sync. *)
C10_NoCertificateAfterClose ==
    /\ (resp.op = "GetByHash" /\ resp.closed) => (resp.err = "ErrClosed" /\ resp.data = <<>>)
    /\ \A p \in Calls :
         call[p].afterClose
         => /\ Observable(p) = NilCert
            /\ ~Invoked(call[p], "sync")
            /\ call[p].pc \in {"signed", "done"}
            /\ call[p].pc = "done"
               => /\ call[p].err # NilErr
                  /\ Invoked(call[p], "put") <=> call[p].err = "ErrClosed"
                  /\ ~Invoked(call[p], "put")
                     => ErrKind(call[p].err) \in {"Unauthorized", "SigningError"}

C10_Witness ==
    \E p \in Calls :
        /\ svc.closeCalls = 1
        /\ call[p].afterClose
        /\ call[p].pc = "done"
        /\ HasStep(call[p], "put", "ErrClosed")

(* C11: for every certificate (dataHash, timeout) Store has returned,
   GetByHash(dataHash) returns the original message at every moment before
   that timeout, whatever was stored later (here granting that the storage
   service is not closed and reports no failure of the read). *)
C11_RetrievableUntilTimeout ==
    (/\ ReadOfHeld
     /\ now < held.Timeout
     /\ ~resp.closed
     /\ resp.err # "ErrStorageGet")
    => (resp.err = NilErr /\ resp.data = MsgOf(held.DataHash))

(* C12: a storage service is built only for the selectors "" and files, db,
   s3, redis and bigCache, as the chain disk / database / object store /
   cache over object store / memory cache over cache over object store, and
   the chain never changes; any other selector ends construction with a
   configuration error: there is no storage service and no DAS, no call is
   ever served, and no Store call reports the unrecognized selector. *)
C12_ClosedSelectorSet ==
    LET selector == config.StorageType
        recognized == selector \in {"", "files", "db", "s3", "redis", "bigCache"}
    IN /\ das.constructed
          => /\ recognized
             /\ svc.chain = CASE selector \in {"", "files"} -> <<"files">>
                               [] selector = "db" -> <<"db">>
                               [] selector = "s3" -> <<"s3">>
                               [] selector = "redis" -> <<"redis", "s3">>
                               [] selector = "bigCache" -> <<"bigCache", "redis", "s3">>
                               [] OTHER -> <<>>
       /\ ~recognized
          => /\ NewStorageServiceFromStorageConfig(config).err # NilErr
             /\ ~das.constructed
             /\ svc = NoService
             /\ closer = "none"
             /\ \A p \in Calls : call[p] = IdleCall
             /\ ~ENABLED Next
       /\ \A p \in Calls : call[p].err # NewStorageServiceFromStorageConfig(
                                           [config EXCEPT !.StorageType = "tape"]).err

C12_Witness ==
    /\ config.StorageType \notin {"", "files", "db", "s3", "redis", "bigCache"}
    /\ config.L1NodeURL # "none"
    /\ config.SequencerInboxAddress # ""
    /\ ~das.constructed

(* C13: error kinds are preserved end to end: GetByHash of a hash the storage
   service does not know is answered not-found, and whatever error the storage
   service reports to Store, GetByHash or KeysetFromHash reaches the caller
   with its kind unchanged: a storage failure is never reported as not-found,
   nor not-found as a storage failure. *)
C13_ErrorKindsPreserved ==
    /\ (/\ resp.op = "GetByHash"
        /\ ~resp.closed
        /\ resp.backendErr # "ErrStorageGet"
        /\ ~Holds(svc, resp.hash))
       => ErrKind(resp.err) = "NotFoundError"
    /\ (resp.op \in {"GetByHash", "KeysetFromHash"} /\ resp.backendErr # NilErr)
       => ErrKind(resp.err) = ErrKind(resp.backendErr)
    /\ \A p \in Calls : \A i \in 1..Len(call[p].steps) :
         (/\ call[p].pc = "done"
          /\ call[p].steps[i].op \in {"put", "sync"}
          /\ call[p].steps[i].res # "ok")
         => ErrKind(call[p].err) = ErrKind(call[p].steps[i].res)

(* C14: in a chain where a cache tier wraps an inner store, a GetByHash that
   misses in an outer tier and is answered further inside returns the inner
   bytes and leaves a copy in every tier it passed, and the identical
   GetByHash made again is answered by the outermost tier alone: no tier
   inside it, the object store in particular, is asked again. *)
C14_CachePopulatedOnMiss ==
    LET outer == svc.chain[1]
        innermost == svc.chain[Len(svc.chain)]
    IN /\ (resp.op = "GetByHash" /\ resp.err = NilErr)
          => /\ resp.data = svc.entries[resp.hash].data
             /\ \A i \in 1..Len(resp.reached) :
                  resp.reached[i] # innermost => resp.hash \in svc.cached[resp.reached[i]]
       /\ (resp.op = "GetByHash" /\ resp.prev.err = NilErr)
          => /\ resp.err = NilErr
             /\ resp.data = resp.prev.data
             /\ resp.reached = <<outer>>
             /\ \A i \in 1..Len(resp.reached) : resp.reached[i] # "s3"

C14_Witness ==
    /\ resp.op = "GetByHash"
    /\ resp.prev.err = NilErr
    /\ resp.prev.reached = <<"bigCache", "redis", "s3">>
    /\ resp.reached = <<"bigCache">>
    /\ resp.data = MsgOf(resp.hash)

(* C15: KeysetFromHash of a hash other than the local keyset hash asks
   GetByHash once: when that succeeds it returns the storage service's bytes
   unchanged with no error, and otherwise it returns no bytes and
   ErrDasKeysetNotFound, whatever error the storage service reported. *)
C15_UnknownKeysetDelegates ==
    (resp.op = "KeysetFromHash" /\ resp.hash # das.keysetHash)
    => /\ resp.backendGets = 1
       /\ resp.err \in {NilErr, "ErrDasKeysetNotFound"}
       /\ resp.backendErr = NilErr
          => /\ resp.err = NilErr
             /\ resp.data = SvcGetByHash(svc, resp.hash, now, FALSE).data
             /\ resp.data = svc.entries[resp.hash].data
       /\ resp.backendErr # NilErr
          => /\ resp.err = "ErrDasKeysetNotFound"
             /\ resp.data = <<>>
       /\ resp.backendErr = SvcGetByHash(svc, resp.hash, now,
                                         resp.backendErr = "ErrStorageGet").err

C15_Witness ==
    /\ resp.op = "KeysetFromHash"
    /\ resp.hash # das.keysetHash
    /\ Holds(svc, resp.hash)
    /\ resp.backendErr = "ErrStorageGet"
    /\ resp.err = "ErrDasKeysetNotFound"

(* C16: the keyset identity of a constructed DAS never changes: in every
   reachable state its private key, keysetBytes and keysetHash are those
   computed at construction, keysetHash is the content hash of keysetBytes,
   every certificate a Store call returns carries that keysetHash, and
   CurrentKeysetBytes and KeysetFromHash(keysetHash) return those bytes,
   whatever calls were made before and whether they failed. *)
C16_KeysetImmutable ==
    das.constructed
    => LET publicKey == PublicKeyFromPrivateKey(LocalPrivKey)
           keyset == [AssumedHonest |-> 1, PubKeys |-> <<publicKey>>]
       IN /\ das.privKey = LocalPrivKey
          /\ das.keysetBytes = KeysetSerialize(keyset)
          /\ das.keysetHash = KeysetHash(keyset)
          /\ das.keysetHash = Keccak256(das.keysetBytes)
          /\ \A p \in Calls :
               Observable(p) # NilCert => Observable(p).KeysetHash = KeysetHash(keyset)
          /\ (resp.op = "CurrentKeysetBytes"
               \/ (resp.op = "KeysetFromHash" /\ resp.hash = KeysetHash(keyset)))
             => (resp.err = NilErr /\ resp.data = KeysetSerialize(keyset))

C16_Witness ==
    /\ resp.op = "CurrentKeysetBytes"
    /\ resp.data = das.keysetBytes
    /\ svc.closed
    /\ svc.entries # NoEntries
    /\ call["c1"].pc = "done"
    /\ call["c1"].err = "ErrClosed"

\* what the storage service holds for a message after a single Put of it
SinglePut(message, timeout) ==
    SvcPut(NewStore(svc.chain, svc.discard), message, timeout, FALSE).svc.entries[Keccak256(message)]

(* C17: under every interleaving of the steps of two Store calls, (a) what
   the storage service holds for a payload is what a single Put of it leaves,
   also when both calls put the same payload, and two calls for the same
   payload that each complete return each its own certificate, with the same
   dataHash and keysetHash; (b) a call whose own Put and Sync succeeded
   returns its certificate whatever happened to the other call, a call fails
   only with the error of its own step, and the payload of a returned
   certificate is retrievable by the certificate's dataHash. *)
C17_ConcurrentStoresIndependent ==
    /\ \A h \in DOMAIN svc.entries :
         \E t \in Timeouts : svc.entries[h] = SinglePut(MsgOf(h), t)
    /\ \A p \in Calls :
         LET rec == call[p]
             n == Len(rec.steps)
         IN /\ Invoked(rec, "put") /\ HasStep(rec, "put", "ok")
               => /\ Holds(svc, Keccak256(rec.msg))
                  /\ svc.entries[Keccak256(rec.msg)].data = rec.msg
            /\ (rec.pc = "done" /\ HasStep(rec, "put", "ok") /\ HasStep(rec, "sync", "ok"))
               => rec.c = IssuedCert(das, rec.msg, rec.timeout)
            /\ (rec.pc = "done" /\ rec.c = NilCert)
               => (n > 0 /\ rec.steps[n].res = rec.err /\ rec.err # NilErr)
            /\ Observable(p) # NilCert
               => LET r == SvcGetByHash(svc, Observable(p).DataHash, now, FALSE)
                  IN r.err = NilErr /\ r.data = rec.msg
    /\ \A p, q \in Calls :
         (Observable(p) # NilCert /\ Observable(q) # NilCert /\ call[p].msg = call[q].msg)
         => /\ Observable(p).DataHash = Observable(q).DataHash
            /\ Observable(p).KeysetHash = Observable(q).KeysetHash
            /\ Observable(p).Timeout = call[p].timeout

C17_Witness ==
    /\ call["c1"].pc = "done"
    /\ call["c1"].err = "ErrStorageSync"
    /\ Observable("c2") # NilCert
    /\ call["c1"].msg = call["c2"].msg
    /\ call["c1"].timeout # call["c2"].timeout
    /\ svc.entries[Keccak256(call["c1"].msg)] = SinglePut(call["c1"].msg, call["c1"].timeout)

\* the handlers that only read
ReadOnlyOps == {"GetByHash", "KeysetFromHash", "HealthCheck"}

(* C18: a call of GetByHash, KeysetFromHash or HealthCheck calls nothing but
   GetByHash or HealthCheck of the storage service (no signer recovery, no
   batch-poster check, no Put, no Sync) and leaves what the storage service
   holds, whether it is closed, the keyset and every Store call as they were;
   what GetByHash returns is what the storage service's GetByHash returns for
   that hash, data and error alike, with a verifier configured or not. *)
C18_RetrievalPublicReadOnly ==
    [][ (resp' # NoResp /\ resp'.op \in ReadOnlyOps)
        => /\ \A i \in 1..Len(resp'.calls) : resp'.calls[i] \in {"GetByHash", "HealthCheck"}
           /\ svc'.entries = svc.entries
           /\ svc'.closed = svc.closed
           /\ svc'.closeCalls = svc.closeCalls
           /\ das' = das
           /\ call' = call
           /\ resp'.op = "GetByHash"
              => /\ resp'.calls = <<"GetByHash">>
                 /\ \E fail \in BOOLEAN :
                      LET r == SvcGetByHash(svc, resp'.hash, now, fail)
                      IN /\ resp'.data = r.data
                         /\ resp'.err = r.err
                         /\ svc' = r.svc ]_vars

C18_Witness ==
    /\ das.bpVerifier
    /\ resp.op = "GetByHash"
    /\ resp.err = NilErr
    /\ resp.data # <<>>
    /\ Len(resp.reached) = 2
    /\ call["c1"].pc = "put"

====
